---- MODULE Spec2Model ----
(***************************************************************************)
(* A model of the fateweaver card bot: the per-player deck / hand /        *)
(* discard state machine of tarot_deck.py and the command handlers of      *)
(* fate_commands.py that drive it through the guild -> player registry.    *)
(*                                                                         *)
(* A card is its catalog index 0 .. NumCards-1.  A pile is a sequence of   *)
(* card indices (a Python list).  A value that may be None is a set with   *)
(* at most one element: {} is None.  A text is a sequence of one-letter    *)
(* strings, so that str.lower(), str() and int() are real conversions.     *)
(*                                                                         *)
(* guild_data is Fateweaver.guild_data; file is the data file on disk ({}  *)
(* when there is none); save_task says whether the save loop was started;  *)
(* running holds the draw commands suspended at their await; last is a     *)
(* history variable, what the last operation did.                          *)
(***************************************************************************)
EXTENDS Integers, Sequences, FiniteSets, TLC

VARIABLES guild_data, last, file, save_task, running

vars == <<guild_data, last, file, save_task, running>>

(***************************************************************************)
(* Bounds and program constants                                            *)
(***************************************************************************)
\* Number of cards in the catalog (len(card_list)); cards.json is data.
NumCards == 3

\* fate_commands.py: MAX_DRAW = 5
MAX_DRAW == 5

\* tarot_deck.py, playCard: card_index = -1 (and findCardIndex's not-found)
NOT_FOUND == -1

Cards == 0 .. (NumCards - 1)

\* Discord ids are integers
Guilds == {1}

Users == {1}

Channels == {5}

Dests == {"deck", "hand", "discard"}

(***************************************************************************)
(* Texts and the card catalog                                              *)
(***************************************************************************)
\* str.lower() on one letter of the alphabet the model uses
LowerChar(c) ==
    CASE c = "C" -> "c"
      [] c = "K" -> "k"
      [] OTHER -> c

\* str.lower()
Lower(s) == [i \in DOMAIN s |-> LowerChar(s[i])]

\* The decimal digits, digit d at position d + 1
Digits == <<"0", "1", "2", "3", "4", "5", "6", "7", "8", "9">>

\* str(n) of a non-negative integer: its decimal numeral
RECURSIVE str(_)
str(n) == IF n < 10 THEN <<Digits[n + 1]>> ELSE Append(str(n \div 10), Digits[(n % 10) + 1])

\* int(text) raises ValueError unless the text is a numeral
IsNumeral(text) == text # <<>> /\ \A i \in DOMAIN text : \E d \in DOMAIN Digits : Digits[d] = text[i]

\* int(text) of a numeral
RECURSIVE int(_)
int(text) ==
    LET value == (CHOOSE d \in DOMAIN Digits : Digits[d] = text[Len(text)]) - 1
    IN  IF Len(text) = 1 THEN value
        ELSE 10 * int(SubSeq(text, 1, Len(text) - 1)) + value

\* getCardName(index): card i is named "C<i>"
getCardName(index) == <<"C", ToString(index)>>

\* getCardKeywords(index): cards of the same parity share one keyword
getCardKeywords(index) == {<<"k", ToString(index % 2)>>}

\* What a user can type as one keyword: every card's name as printed, a
\* shared keyword, a keyword in upper case, and a word that matches nothing.
Keys == {getCardName(i) : i \in Cards} \cup {<<"k", "0">>, <<"K", "1">>, <<"z">>}

\* The first of two keywords: one that matches nothing, or a shared keyword
FirstKeys == {<<"z">>, <<"k", "0">>}

\* The *args of a command: no keyword, one keyword, or two
ArgLists ==
    {<<>>} \cup {<<k>> : k \in Keys} \cup {<<k1, k2>> : k1 \in FirstKeys, k2 \in Keys}

\* The optional count of the draw command: None, or an integer
DrawArgs == {{}} \cup {{n} : n \in -1 .. (MAX_DRAW + 1)}

(***************************************************************************)
(* Python list helpers                                                     *)
(***************************************************************************)
Range(s) == {s[i] : i \in DOMAIN s}

\* x in list
InList(x, s) == x \in Range(s)

\* list.remove(x): removes the first occurrence of x (x is in the list)
ListRemove(s, x) ==
    LET i == CHOOSE j \in DOMAIN s : s[j] = x /\ \A k \in 1 .. (j - 1) : s[k] # x
    IN  SubSeq(s, 1, i - 1) \o SubSeq(s, i + 1, Len(s))

\* list.insert(0, x)
InsertFront(s, x) == <<x>> \o s

\* random.shuffle(list): the list rearranged by a permutation f of its positions
Rearranged(s, f) == [i \in 1 .. Len(s) |-> s[f[i]]]

Shuffles(s) == {Rearranged(s, f) : f \in Permutations(1 .. Len(s))}

(***************************************************************************)
(* tarot_deck.py: Deck                                                     *)
(***************************************************************************)
\* Deck.__init__: list(range(0, len(card_list)))
Deck_init == [i \in 1 .. NumCards |-> i - 1]

\* Deck.drawCard with pop() for pop(0): the bottom card is drawn
Deck_drawCard_popsLast(card_nums) ==
    IF Len(card_nums) = 0
    THEN [ret |-> {}, card_nums |-> card_nums]
    ELSE [ret |-> {card_nums[Len(card_nums)]},
          card_nums |-> SubSeq(card_nums, 1, Len(card_nums) - 1)]

\* Deck.drawCard: None on an empty deck, else pop(0)
Deck_drawCard(card_nums) ==
    IF Len(card_nums) = 0
    THEN [ret |-> {}, card_nums |-> card_nums]
    ELSE [ret |-> {Head(card_nums)}, card_nums |-> Tail(card_nums)]

\* Deck.insertCard: append to the bottom
Deck_insertCard(card_nums, card_index) == Append(card_nums, card_index)

(***************************************************************************)
(* tarot_deck.py: Diviner.  A player is [hand, discard, deck]; the result   *)
(* of a method is [p: the player afterwards, ret: the returned value,      *)
(* exc: the exception raised or "none", moved: the cards it moved].        *)
(***************************************************************************)
\* Diviner.draw: deck.drawCard(); append to hand unless None; return
\* getCard(card_index), which raises TypeError for card_list[None].
Diviner_draw(p) ==
    LET d == Deck_drawCard(p.deck)
    IN  IF d.ret # {}
        THEN LET card_index == CHOOSE c \in d.ret : TRUE
             IN  [p |-> [p EXCEPT !.deck = d.card_nums,
                                  !.hand = Append(p.hand, card_index)],
                  ret |-> {card_index}, exc |-> "none", moved |-> <<card_index>>]
        ELSE [p |-> [p EXCEPT !.deck = d.card_nums],
              ret |-> {}, exc |-> "TypeError", moved |-> <<>>]

\* The test of playCard's loop: lowered name equal, or lowered text among the keywords
Matches(card_index, card_name) ==
    \/ Lower(getCardName(card_index)) = card_name
    \/ card_name \in getCardKeywords(card_index)

\* playCard's for loop over the hand: the first matching card (break), -1
\* when every card was tried and none matched, and no binding at all ({})
\* when the hand is empty and the loop body never ran.
HandScan(hand, card_name) ==
    IF Len(hand) = 0 THEN {}
    ELSE IF \E i \in DOMAIN hand : Matches(hand[i], card_name)
         THEN {hand[CHOOSE i \in DOMAIN hand :
                      /\ Matches(hand[i], card_name)
                      /\ \A j \in 1 .. (i - 1) : ~Matches(hand[j], card_name)]}
         ELSE {NOT_FOUND}

\* Diviner.playCard without self.hand.remove(card_index): the played card
\* stays in the hand as well
Diviner_playCard_keepsHand(p, card_name) ==
    LET scan == HandScan(p.hand, Lower(card_name))
    IN  IF scan = {}
        THEN [p |-> p, ret |-> {}, exc |-> "UnboundLocalError", moved |-> <<>>]
        ELSE LET card_index == CHOOSE c \in scan : TRUE
             IN  IF card_index # NOT_FOUND
                 THEN [p |-> [p EXCEPT !.discard = Append(p.discard, card_index)],
                       ret |-> {}, exc |-> "none", moved |-> <<card_index>>]
                 ELSE [p |-> p, ret |-> {}, exc |-> "none", moved |-> <<>>]

\* Diviner.playCard: reading the unbound card_index raises UnboundLocalError;
\* a found card is removed from the hand and appended to the discard; the
\* method has no return statement, so it returns None.
Diviner_playCard(p, card_name) ==
    LET scan == HandScan(p.hand, Lower(card_name))
    IN  IF scan = {}
        THEN [p |-> p, ret |-> {}, exc |-> "UnboundLocalError", moved |-> <<>>]
        ELSE LET card_index == CHOOSE c \in scan : TRUE
             IN  IF card_index # NOT_FOUND
                 THEN [p |-> [p EXCEPT !.hand = ListRemove(p.hand, card_index),
                                      !.discard = Append(p.discard, card_index)],
                       ret |-> {}, exc |-> "none", moved |-> <<card_index>>]
                 ELSE [p |-> p, ret |-> {}, exc |-> "none", moved |-> <<>>]

\* shuffleDeck's loop: for card_index in player_cards: deck.insertCard(card_index)
RECURSIVE InsertAll(_, _)
InsertAll(card_nums, player_cards) ==
    IF player_cards = <<>> THEN card_nums
    ELSE InsertAll(Deck_insertCard(card_nums, Head(player_cards)), Tail(player_cards))

\* Diviner.shuffleDeck without self.discard.clear(): the discarded cards go
\* back to the deck and stay in the discard
Diviner_shuffleDeck_keepsDiscard(p, f) ==
    LET player_cards == p.hand \o p.discard
    IN  [hand |-> <<>>, discard |-> p.discard,
         deck |-> Rearranged(InsertAll(p.deck, player_cards), f)]

\* Diviner.shuffleDeck: every card of hand + discard is inserted at the bottom
\* of the deck, hand and discard are cleared, the deck is shuffled (f is the
\* permutation random.shuffle applies).
Diviner_shuffleDeck(p, f) ==
    LET player_cards == p.hand \o p.discard
    IN  [hand |-> <<>>, discard |-> <<>>,
         deck |-> Rearranged(InsertAll(p.deck, player_cards), f)]

\* Diviner.sortHand: hand.sort(key=lambda card: card.id), then the same for
\* the discard.  The piles hold indices (int), which have no id: the key
\* function raises AttributeError on the first card, before list.sort has
\* moved anything; only empty lists are sorted without error.
Diviner_sortHand(p) ==
    [p |-> p,
     exc |-> IF p.hand # <<>> \/ p.discard # <<>> THEN "AttributeError" ELSE "none"]

\* The outcomes of shuffleDeck over the shuffles random.shuffle can produce
ShuffleDeckOutcomes(p) ==
    {Diviner_shuffleDeck(p, f) :
        f \in Permutations(1 .. (Len(p.deck) + Len(p.hand) + Len(p.discard)))}

(***************************************************************************)
(* Diviner.redrawCard, findCardIndex and the getters of the display        *)
(* commands are called by fate_commands.py but are not in tarot_deck.py as *)
(* given; they follow the specification.                                   *)
(***************************************************************************)
\* sorted(list) of card indices
Sorted(s) == SortSeq(s, LAMBDA a, b : a < b)

\* getSortedHand, getDiscard, getDeck, getSortedDeck: what the display
\* commands send; the sorted ones are sorted copies.
getSortedHand(p) == Sorted(p.hand)

getDiscard(p) == p.discard

getDeck(p) == p.deck

getSortedDeck(p) == Sorted(p.deck)

\* redraw(keyword): the first card of the discard, in list order, that the
\* keyword matches moves to the end of the hand and is returned; else None.
Diviner_redrawCard(p, card_name) ==
    LET name == Lower(card_name)
        hits == {i \in DOMAIN p.discard : Matches(p.discard[i], name)}
    IN  IF hits = {}
        THEN [p |-> p, ret |-> {}, exc |-> "none", moved |-> <<>>]
        ELSE LET first == CHOOSE i \in hits : \A j \in hits : i <= j
                 card_index == p.discard[first]
             IN  [p |-> [p EXCEPT !.discard = ListRemove(p.discard, card_index),
                                  !.hand = Append(p.hand, card_index)],
                  ret |-> {card_index}, exc |-> "none", moved |-> <<card_index>>]

\* findIndexByKeyword(text): case-insensitive match against each card's name
\* and keywords; the first matching index in catalog order, or not found.
findCardIndex(key) ==
    LET hits == {i \in Cards :
                    \/ Lower(getCardName(i)) = Lower(key)
                    \/ Lower(key) \in {Lower(w) : w \in getCardKeywords(i)}}
    IN  IF hits = {} THEN NOT_FOUND ELSE CHOOSE i \in hits : \A j \in hits : i <= j

(***************************************************************************)
(* fate_commands.py: Player, Guild and the registry                        *)
(***************************************************************************)
\* Player.__init__ passes hand and discard to Diviner.__init__ and deck_cards
\* to Deck.__init__; tarot_deck.py's constructors take no arguments and build
\* the empty hand and discard and the full deck, which is what a call
\* without arguments gets here, and a call with lists gets those lists.
\* Player(): empty hand and discard, a full deck, then shuffleDeck()
Player_new(f) ==
    Diviner_shuffleDeck([hand |-> <<>>, discard |-> <<>>, deck |-> Deck_init], f)

NewPlayers == {Player_new(f) : f \in Permutations(1 .. NumCards)}

EmptyRegistry == [g \in {} |-> {}]

\* dict[key] = value
Put(d, key, value) == [x \in DOMAIN d \cup {key} |-> IF x = key THEN value ELSE d[x]]

\* Guild(player_dict, tabletop): tabletop is None unless given
Guild_init(player_dict, tabletop) == [tabletop_channel |-> tabletop, player_list |-> player_dict]

\* Fateweaver.getGuild: an unknown guild is created with a new Player for
\* every member it has at that moment.  The registries that can result.
getGuild(gd, g) ==
    IF g \in DOMAIN gd THEN {gd}
    ELSE {Put(gd, g, Guild_init(player_list, {})) :
            player_list \in UNION {[members -> NewPlayers] : members \in SUBSET Users}}

\* Guild.findPlayer without the "if player == None" test: every call stores
\* a new player
Guild_findPlayer_alwaysNew(gd, g, u) ==
    {[gd EXCEPT ![g].player_list = Put(@, u, player)] : player \in NewPlayers}

\* Guild.findPlayer: a user without a player gets a new one
Guild_findPlayer(gd, g, u) ==
    IF u \in DOMAIN gd[g].player_list THEN {gd}
    ELSE {[gd EXCEPT ![g].player_list = Put(@, u, player)] : player \in NewPlayers}

\* Fateweaver.getPlayer
getPlayer(gd, g, u) == UNION {Guild_findPlayer(gd1, g, u) : gd1 \in getGuild(gd, g)}

\* The player of u written wherever a guild holds one for u: players kept
\* by user id alone
SetPlayer_everyGuild(gd, g, u, p) ==
    [x \in DOMAIN gd |->
        IF u \in DOMAIN gd[x].player_list
        THEN [gd[x] EXCEPT !.player_list[u] = p]
        ELSE gd[x]]

\* The player object of (g, u) is mutated in place
SetPlayer(gd, g, u, p) == [gd EXCEPT ![g].player_list[u] = p]

PlayerOf(gd, g, u) == gd[g].player_list[u]

\* What the last command did: its name, whom it addressed (0 where it
\* addressed no guild or no user), how it ended ("ok" or the error raised),
\* the card it reported, the cards it took out of a pile (in order), the
\* destination pile of a restore, and the lists a display command sent.
Result(cmd, g, u, outcome, ret, moved) ==
    [cmd |-> cmd, guild |-> g, user |-> u, outcome |-> outcome, ret |-> ret,
     moved |-> moved, dest |-> "", shown |-> <<>>]

(***************************************************************************)
(* fate_commands.py: loading at startup and the save task.  The data file  *)
(* is a JSON object: guild id numeral -> {"tabletop_channel": channel or   *)
(* null, "player_list": {user id numeral -> {"hand": [..], "discard":      *)
(* [..], "deck": {"card_nums": [..]}}}}.  An entry that lacks a key makes  *)
(* load raise KeyError, a key that is no numeral makes int() raise         *)
(* ValueError.  No file is {}.                                             *)
(***************************************************************************)
\* Player(hand, discard, deck_cards) with "if not deck_cards" for
\* "if deck_cards is None": a player saved with an empty deck is re-pooled
Player_loaded_shufflesEmptyDeck(hand, discard, deck_cards) ==
    IF deck_cards = <<>>
    THEN Diviner_shuffleDeck([hand |-> hand, discard |-> discard, deck |-> Deck_init],
                             [i \in 1 .. (NumCards + Len(hand) + Len(discard)) |-> i])
    ELSE [hand |-> hand, discard |-> discard, deck |-> deck_cards]

\* Player(hand, discard, deck_cards) with deck_cards given (a list, which
\* is what a data file holds): the lists as given, and no shuffle
Player_loaded(hand, discard, deck_cards) ==
    [hand |-> hand, discard |-> discard, deck |-> deck_cards]

\* load's inner loop body: Player(player["hand"], player["discard"],
\* player["deck"]["card_nums"]); {} when it raises
LoadPlayer(player) ==
    IF /\ {"hand", "discard", "deck"} \subseteq DOMAIN player
       /\ "card_nums" \in DOMAIN player.deck
    THEN {Player_loaded(player.hand, player.discard, player.deck.card_nums)}
    ELSE {}

\* load's outer loop body for one guild entry: the players under
\* int(user_id), then Guild(player_list, guild["tabletop_channel"]); {}
\* when it raises
LoadGuild(guild) ==
    IF "player_list" \notin DOMAIN guild THEN {}
    ELSE LET entries == guild.player_list
         IN  IF \E user_id \in DOMAIN entries :
                    ~IsNumeral(user_id) \/ LoadPlayer(entries[user_id]) = {}
             THEN {}
             ELSE IF "tabletop_channel" \notin DOMAIN guild THEN {}
             ELSE {Guild_init([u \in {int(user_id) : user_id \in DOMAIN entries} |->
                                 LET user_id == CHOOSE k \in DOMAIN entries : int(k) = u
                                 IN  CHOOSE player \in LoadPlayer(entries[user_id]) : TRUE],
                              guild.tabletop_channel)}

\* load's outer loop: the guilds in the order of the file, each stored
\* under int(id) as soon as it is built; an exception leaves what was stored
RECURSIVE load_loop(_, _, _)
load_loop(data, order, gd) ==
    IF order = <<>> THEN [guild_data |-> gd, exc |-> "none"]
    ELSE LET id == Head(order)
             guild == LoadGuild(data[id])
         IN  IF guild = {} \/ ~IsNumeral(id)
             THEN [guild_data |-> gd, exc |-> "Exception"]
             ELSE load_loop(data, Tail(order),
                            Put(gd, int(id), CHOOSE x \in guild : TRUE))

\* Fateweaver.load on the registry __init__ has just emptied: loadData()
\* raises when there is no file
load(f, order) ==
    IF f = {} THEN [guild_data |-> EmptyRegistry, exc |-> "Exception"]
    ELSE load_loop(CHOOSE data \in f : TRUE, order, EmptyRegistry)

\* The orders in which a JSON object's keys can stand in the file
KeyOrders(f) ==
    IF f = {} THEN {<<>>}
    ELSE LET keys == DOMAIN (CHOOSE data \in f : TRUE)
         IN  {order \in [1 .. Cardinality(keys) -> keys] :
                 \A i, j \in DOMAIN order : i # j => order[i] # order[j]}

\* Fateweaver.__init__ without the except branch's self.guild_data = {}
Fateweaver_init_keepsLoaded(f, order) ==
    [guild_data |-> load(f, order).guild_data, save_task |-> "running"]

\* Fateweaver.__init__: guild_data = {}; load(), and guild_data = {} again
\* if it raises; generateCardList(); save.start()
Fateweaver_init(f, order) ==
    LET loaded == load(f, order)
    IN  [guild_data |-> IF loaded.exc # "none" THEN EmptyRegistry ELSE loaded.guild_data,
         save_task |-> "running"]

\* saveData(guild_data) is imported from fate_data, which is not among the
\* sources; it follows the specification: per guild the tabletop channel
\* and, per user, the hand, discard and deck lists, under str(id) keys.
saveData(gd) ==
    [id \in {str(g) : g \in DOMAIN gd} |->
        LET guild == gd[CHOOSE g \in DOMAIN gd : str(g) = id]
        IN  [tabletop_channel |-> guild.tabletop_channel,
             player_list |->
                [user_id \in {str(u) : u \in DOMAIN guild.player_list} |->
                    LET player == guild.player_list[CHOOSE u \in DOMAIN guild.player_list :
                                                       str(u) = user_id]
                    IN  [hand |-> player.hand, discard |-> player.discard,
                         deck |-> [card_nums |-> player.deck]]]]]

(***************************************************************************)
(* fate_commands.py: the command handlers.  A handler is the set of ways   *)
(* one command, run to completion, can end: each a registry and a Result   *)
(* (the choice is random.shuffle's, and the guild's members at creation).  *)
(***************************************************************************)
Outcome(gd, result) == [gd |-> gd, last |-> result]

\* "tabletop": guild.tabletop_channel = channel.id
setChannel(gd0, g, channel) ==
    {Outcome([gd EXCEPT ![g].tabletop_channel = {channel}],
             Result("tabletop", g, 0, "ok", {}, <<>>)) : gd \in getGuild(gd0, g)}

\* "reset" without a user: shuffleDeck on every player of the guild
ResetAll(gd0, g) ==
    UNION {LET pl == gd[g].player_list
               all == UNION {ShuffleDeckOutcomes(pl[u]) : u \in DOMAIN pl}
           IN  {[gd EXCEPT ![g].player_list = f] :
                   f \in {h \in [DOMAIN pl -> all] :
                             \A u \in DOMAIN pl : h[u] \in ShuffleDeckOutcomes(pl[u])}} :
             gd \in getGuild(gd0, g)}

\* "reset" with a user taking the branch of "reset" without one: the
\* user's player is resolved and every player of the guild is shuffled
ResetOne_everyPlayer(gd0, g, u) == UNION {ResetAll(gd, g) : gd \in getPlayer(gd0, g, u)}

\* "reset" with a user: shuffleDeck on that user's player
ResetOne(gd0, g, u) ==
    UNION {{SetPlayer(gd, g, u, q) : q \in ShuffleDeckOutcomes(PlayerOf(gd, g, u))} :
             gd \in getPlayer(gd0, g, u)}

\* "reset" (user = {} is None)
resetPlayer(gd0, g, user) ==
    IF user # {}
    THEN LET u == CHOOSE x \in user : TRUE
         IN  {Outcome(gd, Result("reset", g, u, "ok", {}, <<>>)) : gd \in ResetOne(gd0, g, u)}
    ELSE {Outcome(gd, Result("reset", g, 0, "ok", {}, <<>>)) : gd \in ResetAll(gd0, g)}

\* restoreCard's loop over *args: the index of the first keyword that
\* findCardIndex finds, -1 when none does (or when there is no keyword)
RECURSIVE FindFirstIndex(_)
FindFirstIndex(args) ==
    IF args = <<>> THEN NOT_FOUND
    ELSE LET card_ind == findCardIndex(Head(args))
         IN  IF card_ind # NOT_FOUND THEN card_ind ELSE FindFirstIndex(Tail(args))

\* restoreCard, the removal: from the hand, else the discard, else the deck
RestoreRemove(p, card_ind) ==
    IF InList(card_ind, p.hand) THEN [p EXCEPT !.hand = ListRemove(@, card_ind)]
    ELSE IF InList(card_ind, p.discard) THEN [p EXCEPT !.discard = ListRemove(@, card_ind)]
    ELSE IF InList(card_ind, p.deck) THEN [p EXCEPT !.deck = ListRemove(@, card_ind)]
    ELSE p

\* restoreCard's insertion with deck.card_nums.append for insert(0, ..)
RestoreInsert_deckBottom(p, dest, card_ind) ==
    CASE dest = "hand" -> [p EXCEPT !.hand = Append(@, card_ind)]
      [] dest = "discard" -> [p EXCEPT !.discard = InsertFront(@, card_ind)]
      [] dest = "deck" -> [p EXCEPT !.deck = Append(@, card_ind)]

\* restoreCard, the insertion: hand.append, discard.insert(0, ..), deck.insert(0, ..)
RestoreInsert(p, dest, card_ind) ==
    CASE dest = "hand" -> [p EXCEPT !.hand = Append(@, card_ind)]
      [] dest = "discard" -> [p EXCEPT !.discard = InsertFront(@, card_ind)]
      [] dest = "deck" -> [p EXCEPT !.deck = InsertFront(@, card_ind)]

\* restoreCard with the insertion made only for a card that was taken out
\* of a pile
RestoreMove_onlyIfHeld(p, dest, card_ind) ==
    IF RestoreRemove(p, card_ind) = p THEN p
    ELSE RestoreInsert(RestoreRemove(p, card_ind), dest, card_ind)

\* restoreCard cut short between lines 188 and 190: the card has left its
\* pile and has not entered the destination
RestoreMove_removesOnly(p, dest, card_ind) == RestoreRemove(p, card_ind)

\* restoreCard, lines 186-192: the card leaves the pile that holds it and
\* enters the destination
RestoreMove(p, dest, card_ind) == RestoreInsert(RestoreRemove(p, card_ind), dest, card_ind)

\* "restore" (dest is one of deck, hand, discard: anything else is refused
\* before the player is looked up)
restoreCard(gd0, g, u, dest, args) ==
    LET card_ind == FindFirstIndex(args)
    IN  {IF card_ind = NOT_FOUND
         THEN Outcome(gd, [Result("restore", g, u, "NotFound", {}, <<>>) EXCEPT !.dest = dest])
         ELSE LET player == PlayerOf(gd, g, u)
              IN  Outcome(SetPlayer(gd, g, u, RestoreMove(player, dest, card_ind)),
                          [Result("restore", g, u, "ok", {card_ind},
                                  IF RestoreRemove(player, card_ind) = player
                                  THEN <<>> ELSE <<card_ind>>)
                             EXCEPT !.dest = dest]) :
           gd \in getPlayer(gd0, g, u)}

\* "dshuffle": player.deck.shuffle()
deckShuffle(gd0, g, u) ==
    UNION {{Outcome(SetPlayer(gd, g, u, [PlayerOf(gd, g, u) EXCEPT !.deck = deck]),
                    Result("dshuffle", g, u, "ok", {}, <<>>)) :
               deck \in Shuffles(PlayerOf(gd, g, u).deck)} :
             gd \in getPlayer(gd0, g, u)}

\* drawCard's clamp without "elif arg > MAX_DRAW: arg = MAX_DRAW"
DrawCount_noUpperClamp(arg) ==
    IF arg = {} THEN 1
    ELSE LET n == CHOOSE x \in arg : TRUE
         IN  IF n < 1 THEN 1 ELSE n

\* drawCard's clamp of its argument
DrawCount(arg) ==
    IF arg = {} THEN 1
    ELSE LET n == CHOOSE x \in arg : TRUE
         IN  IF n < 1 THEN 1
             ELSE IF n > MAX_DRAW THEN MAX_DRAW
             ELSE n

\* drawCard's loop: i more draws; an exception of player.draw() ends the
\* command, a None card ends it with the empty-deck CommandError.
RECURSIVE DrawLoop(_, _, _, _)
DrawLoop(p, i, ret, moved) ==
    IF i = 0 THEN [p |-> p, outcome |-> "ok", ret |-> ret, moved |-> moved]
    ELSE LET r == Diviner_draw(p)
         IN  IF r.exc # "none"
             THEN [p |-> r.p, outcome |-> r.exc, ret |-> {}, moved |-> moved \o r.moved]
             ELSE IF r.ret = {}
             THEN [p |-> r.p, outcome |-> "EmptyDeck", ret |-> {}, moved |-> moved \o r.moved]
             ELSE DrawLoop(r.p, i - 1, r.ret, moved \o r.moved)

\* "draw"
Fateweaver_drawCard(gd0, g, u, arg) ==
    {LET r == DrawLoop(PlayerOf(gd, g, u), DrawCount(arg), {}, <<>>)
     IN  Outcome(SetPlayer(gd, g, u, r.p), Result("draw", g, u, r.outcome, r.ret, r.moved)) :
       gd \in getPlayer(gd0, g, u)}

\* The loop of playCard and discardCard over *args: card = player.playCard(key),
\* break when card is not None
RECURSIVE PlayLoop(_, _, _)
PlayLoop(p, args, moved) ==
    IF args = <<>> THEN [p |-> p, exc |-> "none", ret |-> {}, moved |-> moved]
    ELSE LET r == Diviner_playCard(p, Head(args))
         IN  IF r.exc # "none" \/ r.ret # {}
             THEN [p |-> r.p, exc |-> r.exc, ret |-> r.ret, moved |-> moved \o r.moved]
             ELSE PlayLoop(r.p, Tail(args), moved \o r.moved)

\* The loop of redrawCard over *args
RECURSIVE RedrawLoop(_, _, _)
RedrawLoop(p, args, moved) ==
    IF args = <<>> THEN [p |-> p, exc |-> "none", ret |-> {}, moved |-> moved]
    ELSE LET r == Diviner_redrawCard(p, Head(args))
         IN  IF r.exc # "none" \/ r.ret # {}
             THEN [p |-> r.p, exc |-> r.exc, ret |-> r.ret, moved |-> moved \o r.moved]
             ELSE RedrawLoop(r.p, Tail(args), moved \o r.moved)

\* How a keyword command ends: the exception, else the not-found
\* CommandError when card is None, else the success message
LookupOutcome(r) ==
    IF r.exc # "none" THEN r.exc
    ELSE IF r.ret = {} THEN "NotFound"
    ELSE "ok"

\* The tabletop check made after self.getPlayer(..): the player is resolved
\* (and created, if the user has none) before the command is refused
NoTabletop_afterLookup(gd0, g, u, cmd) ==
    {Outcome(gd1, Result(cmd, g, u, "NoTabletop", {}, <<>>)) :
       gd1 \in {x \in getPlayer(gd0, g, u) : x[g].tabletop_channel = {}}}

\* The tabletop check that opens "play", "discard" and "redraw": the guild
\* is resolved, and without a tabletop channel the command ends there
NoTabletop(gd0, g, u, cmd) ==
    {Outcome(gd1, Result(cmd, g, u, "NoTabletop", {}, <<>>)) :
       gd1 \in {x \in getGuild(gd0, g) : x[g].tabletop_channel = {}}}

WithTabletop(gd0, g, u) ==
    UNION {getPlayer(gd1, g, u) :
             gd1 \in {x \in getGuild(gd0, g) : x[g].tabletop_channel # {}}}

\* "play"
Fateweaver_playCard(gd0, g, u, args) ==
    NoTabletop(gd0, g, u, "play") \cup
    {LET r == PlayLoop(PlayerOf(gd, g, u), args, <<>>)
     IN  Outcome(SetPlayer(gd, g, u, r.p),
                 Result("play", g, u, LookupOutcome(r), r.ret, r.moved)) :
       gd \in WithTabletop(gd0, g, u)}

\* "discard"
discardCard(gd0, g, u, args) ==
    NoTabletop(gd0, g, u, "discard") \cup
    {LET r == PlayLoop(PlayerOf(gd, g, u), args, <<>>)
     IN  Outcome(SetPlayer(gd, g, u, r.p),
                 Result("discard", g, u, LookupOutcome(r), r.ret, r.moved)) :
       gd \in WithTabletop(gd0, g, u)}

\* "redraw"
redrawCard(gd0, g, u, args) ==
    NoTabletop(gd0, g, u, "redraw") \cup
    {LET r == RedrawLoop(PlayerOf(gd, g, u), args, <<>>)
     IN  Outcome(SetPlayer(gd, g, u, r.p),
                 Result("redraw", g, u, LookupOutcome(r), r.ret, r.moved)) :
       gd \in WithTabletop(gd0, g, u)}

\* "shuffle": moved records player_cards, the hand and discard it re-pools
shuffleCards(gd0, g, u) ==
    UNION {LET player == PlayerOf(gd, g, u)
           IN  {Outcome(SetPlayer(gd, g, u, q),
                        Result("shuffle", g, u, "ok", {}, player.hand \o player.discard)) :
                  q \in ShuffleDeckOutcomes(player)} :
             gd \in getPlayer(gd0, g, u)}

\* "hand" with the hand sorted where it is stored (hand.sort()) and that
\* list sent
showHand_sortsInPlace(gd0, g, u) ==
    {LET player == [PlayerOf(gd, g, u) EXCEPT !.hand = Sorted(@)]
     IN  Outcome(SetPlayer(gd, g, u, player),
                 [Result("hand", g, u, "ok", {}, <<>>) EXCEPT
                    !.shown = <<player.hand, getDiscard(player), getSortedDeck(player)>>]) :
       gd \in getPlayer(gd0, g, u)}

\* "hand": the caller's sorted hand, discard and sorted deck are sent
showHand(gd0, g, u) ==
    {LET player == PlayerOf(gd, g, u)
     IN  Outcome(gd, [Result("hand", g, u, "ok", {}, <<>>) EXCEPT
                        !.shown = <<getSortedHand(player), getDiscard(player),
                                    getSortedDeck(player)>>]) :
       gd \in getPlayer(gd0, g, u)}

\* "peek": the named user's sorted hand, discard and deck are sent
peekHand(gd0, g, u) ==
    {LET player == PlayerOf(gd, g, u)
     IN  Outcome(gd, [Result("peek", g, u, "ok", {}, <<>>) EXCEPT
                        !.shown = <<getSortedHand(player), getDiscard(player),
                                    getDeck(player)>>]) :
       gd \in getPlayer(gd0, g, u)}

(***************************************************************************)
(* Actions: one command arrives and is handled                             *)
(***************************************************************************)
Tabletop == \E g \in Guilds, channel \in Channels : \E o \in setChannel(guild_data, g, channel) :
            /\ guild_data' = o.gd
            /\ last' = o.last
            /\ UNCHANGED <<file, save_task, running>>

Reset ==
    \E g \in Guilds, user \in {{}} \cup {{u} : u \in Users} :
        \E o \in resetPlayer(guild_data, g, user) :
            /\ guild_data' = o.gd
            /\ last' = o.last
            /\ UNCHANGED <<file, save_task, running>>

Restore ==
    \E g \in Guilds, u \in Users, dest \in Dests, args \in ArgLists :
        \E o \in restoreCard(guild_data, g, u, dest, args) :
            /\ guild_data' = o.gd
            /\ last' = o.last
            /\ UNCHANGED <<file, save_task, running>>

DShuffle == \E g \in Guilds, u \in Users : \E o \in deckShuffle(guild_data, g, u) :
            /\ guild_data' = o.gd
            /\ last' = o.last
            /\ UNCHANGED <<file, save_task, running>>

Draw ==
    \E g \in Guilds, u \in Users, arg \in DrawArgs :
        \E o \in Fateweaver_drawCard(guild_data, g, u, arg) :
            /\ guild_data' = o.gd
            /\ last' = o.last
            /\ UNCHANGED <<file, save_task, running>>

Play ==
    \E g \in Guilds, u \in Users, args \in ArgLists :
        \E o \in Fateweaver_playCard(guild_data, g, u, args) :
            /\ guild_data' = o.gd
            /\ last' = o.last
            /\ UNCHANGED <<file, save_task, running>>

Discard ==
    \E g \in Guilds, u \in Users, args \in ArgLists :
        \E o \in discardCard(guild_data, g, u, args) :
            /\ guild_data' = o.gd
            /\ last' = o.last
            /\ UNCHANGED <<file, save_task, running>>

Redraw ==
    \E g \in Guilds, u \in Users, args \in ArgLists :
        \E o \in redrawCard(guild_data, g, u, args) :
            /\ guild_data' = o.gd
            /\ last' = o.last
            /\ UNCHANGED <<file, save_task, running>>

Shuffle == \E g \in Guilds, u \in Users : \E o \in shuffleCards(guild_data, g, u) :
            /\ guild_data' = o.gd
            /\ last' = o.last
            /\ UNCHANGED <<file, save_task, running>>

Hand == \E g \in Guilds, u \in Users : \E o \in showHand(guild_data, g, u) :
            /\ guild_data' = o.gd
            /\ last' = o.last
            /\ UNCHANGED <<file, save_task, running>>

Peek == \E g \in Guilds, u \in Users : \E o \in peekHand(guild_data, g, u) :
            /\ guild_data' = o.gd
            /\ last' = o.last
            /\ UNCHANGED <<file, save_task, running>>

(***************************************************************************)
(* The draw command as the event loop runs it.  drawCard awaits            *)
(* sendCardInfo after every card it draws, and at an await other tasks     *)
(* run: other commands (discord.py runs every command as a task of its     *)
(* own) and the save loop.  No other handler awaits between two changes of *)
(* the piles, so the others stay one step each.  A suspended draw command  *)
(* is [guild, user, left]: whose it is and how many draws it has yet to    *)
(* make; one that has made its last draw changes nothing any more and is   *)
(* not kept.                                                               *)
(***************************************************************************)
\* One pass of drawCard's loop for a command that has left - 1 passes to
\* make after it: the registry, the Result, and the commands suspended
DrawPass(gd, g, u, left, suspended) ==
    LET r == DrawLoop(PlayerOf(gd, g, u), 1, {}, <<>>)
        awaits == r.outcome = "ok" /\ left > 1
    IN  [gd |-> SetPlayer(gd, g, u, r.p),
         last |-> Result("draw", g, u, IF awaits THEN "awaiting" ELSE r.outcome, r.ret, r.moved),
         running |-> IF awaits
                     THEN suspended \cup {[guild |-> g, user |-> u, left |-> left - 1]}
                     ELSE suspended]

\* "draw" up to its first await (a player has at most one draw command
\* suspended here)
DrawBegin ==
    \E g \in Guilds, u \in Users, arg \in DrawArgs :
        /\ \A t \in running : t.guild # g \/ t.user # u
        /\ \E gd \in getPlayer(guild_data, g, u) :
              LET o == DrawPass(gd, g, u, DrawCount(arg), running)
              IN  /\ guild_data' = o.gd
                  /\ last' = o.last
                  /\ running' = o.running
        /\ UNCHANGED <<file, save_task>>

\* A suspended "draw" runs on from its await to the next, or to its end
DrawResume ==
    \E t \in running :
        LET o == DrawPass(guild_data, t.guild, t.user, t.left, running \ {t})
        IN  /\ guild_data' = o.gd
            /\ last' = o.last
            /\ running' = o.running
            /\ UNCHANGED <<file, save_task>>

(***************************************************************************)
(* Startup and the save task as steps                                      *)
(***************************************************************************)
\* The cog is constructed: the whole of Fateweaver.__init__
Startup ==
    /\ save_task = "stopped"
    /\ \E order \in KeyOrders(file) :
          LET cog == Fateweaver_init(file, order)
          IN  /\ guild_data' = cog.guild_data
              /\ save_task' = cog.save_task
    /\ last' = Result("init", 0, 0, "ok", {}, <<>>)
    /\ UNCHANGED <<file, running>>

\* One round of the save loop: saveData(self.guild_data), no await in it
Save ==
    /\ save_task = "running"
    /\ file' = {saveData(guild_data)}
    /\ last' = Result("save", 0, 0, "ok", {}, <<>>)
    /\ UNCHANGED <<guild_data, save_task, running>>

(***************************************************************************)
(* Specifications                                                          *)
(***************************************************************************)
NoCommand == Result("none", 0, 0, "ok", {}, <<>>)

\* Fateweaver.__init__ with no data to load: an empty registry, the save
\* task started
Init ==
    /\ guild_data = EmptyRegistry
    /\ last = NoCommand
    /\ file = {}
    /\ save_task = "running"
    /\ running = {}

Next ==
    \/ Tabletop
    \/ Reset
    \/ Restore
    \/ DShuffle
    \/ Draw
    \/ Play
    \/ Discard
    \/ Redraw
    \/ Shuffle

\* Commands on players the program created
Spec == Init /\ [][Next]_vars

\* The arrangements of the cards 0 .. m-1 in an order
Orders(m) == {s \in [1 .. m -> 0 .. (m - 1)] : \A i, j \in 1 .. m : i # j => s[i] # s[j]}

\* The player entries a data file can hold.  The program saves hand,
\* discard and deck as lists that share out the catalog of the time; load()
\* checks nothing, so a file saved when the catalog had only m cards gives
\* a player that lacks the cards added since.
SnapshotPlayers ==
    UNION {{[hand |-> SubSeq(s, 1, cut[1]), discard |-> SubSeq(s, cut[1] + 1, cut[2]),
             deck |-> [card_nums |-> SubSeq(s, cut[2] + 1, Len(s))]] :
               cut \in {c \in (0 .. Len(s)) \X (0 .. Len(s)) : c[1] <= c[2]}} :
             s \in UNION {Orders(m) : m \in 1 .. NumCards}}

\* The data files considered: one guild, one player
DataFiles ==
    {[id \in {str(g) : g \in Guilds} |->
        [tabletop_channel |-> t, player_list |-> [user_id \in {str(u) : u \in Users} |-> p]]] :
        t \in {{}} \cup {{c} : c \in Channels}, p \in SnapshotPlayers}

\* Fateweaver.__init__ with data to load (the file it read is not kept in
\* the state: no command reads it)
InitLoaded ==
    /\ \E data \in DataFiles : \E order \in KeyOrders({data}) :
          guild_data = Fateweaver_init({data}, order).guild_data
    /\ last = NoCommand
    /\ file = {}
    /\ save_task = "running"
    /\ running = {}

\* Commands on players loaded from a data file
SpecLoaded == InitLoaded /\ [][Next]_vars

\* Guild entries that make load raise: no "player_list"; no
\* "tabletop_channel" (noticed after the players are built); a player
\* without "deck"; a deck without "card_nums"; a user key that is no numeral
BadGuilds ==
    LET player == [hand |-> <<>>, discard |-> <<>>, deck |-> [card_nums |-> Deck_init]]
    IN  {[tabletop_channel |-> {}],
         [player_list |-> (str(1) :> player)],
         [tabletop_channel |-> {}, player_list |-> (str(1) :> [hand |-> <<>>, discard |-> <<>>])],
         [tabletop_channel |-> {},
          player_list |-> (str(1) :> [hand |-> <<>>, discard |-> <<>>, deck |-> [cards |-> <<>>]])],
         [tabletop_channel |-> {}, player_list |-> (<<"x">> :> player)]}

\* The files startup can find: none; a file the program saved; such a file
\* with a second guild that is sound or broken, or under a key that is no
\* numeral
StartupFiles ==
    LET empty == [tabletop_channel |-> {}, player_list |-> <<>>]
    IN  {{}} \cup {{data} : data \in DataFiles}
             \cup {{data @@ (str(2) :> guild)} :
                      data \in DataFiles, guild \in BadGuilds \cup {empty}}
             \cup {{data @@ (<<"x">> :> empty)} : data \in DataFiles}

\* The process before the cog is constructed
InitStartup ==
    /\ guild_data = EmptyRegistry
    /\ last = NoCommand
    /\ file \in StartupFiles
    /\ save_task = "stopped"
    /\ running = {}

NextStartup ==
    \/ Startup
    \/ Save

\* Startup on a data file, and the save task
SpecStartup == InitStartup /\ [][NextStartup]_vars

\* Commands and the save loop interleaved at the awaits of "draw", followed
\* up to the first save: no command reads the file, so what a later save
\* can find in the registry the first can find as well.
NextAsync ==
    \/ file = {} /\ DrawBegin
    \/ file = {} /\ DrawResume
    \/ file = {} /\ Restore
    \/ file = {} /\ Shuffle
    \/ file = {} /\ Save

SpecAsync == Init /\ [][NextAsync]_vars

NextDisplay ==
    \/ Tabletop
    \/ Reset
    \/ Restore
    \/ DShuffle
    \/ Draw
    \/ Play
    \/ Discard
    \/ Redraw
    \/ Shuffle
    \/ Hand
    \/ Peek

\* The commands of Spec and the display commands
SpecDisplay == Init /\ [][NextDisplay]_vars

\* The members of a guild with more than one player
Members == {1, 2}

\* Piles a player can come to hold: the cards, in catalog order, shared out
\* between hand, discard and deck
SplitPlayers ==
    {Player_loaded(SubSeq(Deck_init, 1, cut[1]), SubSeq(Deck_init, cut[1] + 1, cut[2]),
                   SubSeq(Deck_init, cut[2] + 1, NumCards)) :
        cut \in {c \in (0 .. NumCards) \X (0 .. NumCards) : c[1] <= c[2]}}

\* A guild in which one member, or each of the two, has a player
InitMembers ==
    /\ guild_data \in {[g \in Guilds |-> Guild_init(player_list, {})] :
                          player_list \in UNION {[m -> SplitPlayers] : m \in {{1}, Members}}}
    /\ last = NoCommand
    /\ file = {}
    /\ save_task = "running"
    /\ running = {}

\* "reset" in that guild, for one member or for all
MemberReset ==
    \E g \in Guilds, user \in {{}} \cup {{u} : u \in Members} :
        \E o \in resetPlayer(guild_data, g, user) :
            /\ guild_data' = o.gd
            /\ last' = o.last
            /\ UNCHANGED <<file, save_task, running>>

NextMembers == MemberReset

\* Resets in a guild of two members
SpecMembers == InitMembers /\ [][NextMembers]_vars

\* A deck of n cards in catalog order, cut at position c
CutDeck(n, c) == [i \in 1 .. n |-> (i - 1 + c) % n]

\* Players whose deck holds up to MAX_DRAW + 2 cards and whose hand and
\* discard are empty: the draw loop looks at no card's name, so the cards
\* 0 .. n-1 stand for a deck of a catalog that large (the real one has 78).
DeepPlayers ==
    {Player_loaded(<<>>, <<>>, CutDeck(n, c)) : n \in 0 .. (MAX_DRAW + 2), c \in 0 .. MAX_DRAW}

InitDraw ==
    /\ guild_data \in {[g \in Guilds |-> Guild_init([u \in Users |-> p], {})] : p \in DeepPlayers}
    /\ last = NoCommand
    /\ file = {}
    /\ save_task = "running"
    /\ running = {}

NextDraw == Draw

\* Draw commands on a deck deeper than MAX_DRAW
SpecDraw == InitDraw /\ [][NextDraw]_vars

\* The guilds of a bot that serves more than one
Servers == {1, 2}

\* Guild 1 holds a player for user 1 and guild 2 is unknown yet, or guild 1
\* holds a player for one member or for each of its two and guild 2 holds
\* one for user 1, who is a member of both.  A guild the registry holds has
\* a tabletop channel, and the piles are any the players can have been
\* loaded with.
InitServers ==
    /\ guild_data \in
         {[g \in {1} |-> Guild_init([u \in Users |-> p], {c})] :
             p \in SplitPlayers, c \in Channels}
         \cup
         {[g \in Servers |-> IF g = 1 THEN Guild_init(player_list, {c})
                             ELSE Guild_init([u \in Users |-> p], {c})] :
             player_list \in UNION {[m -> SplitPlayers] : m \in {{1}, Members}},
             p \in SplitPlayers, c \in Channels}
    /\ last = NoCommand
    /\ file = {}
    /\ save_task = "running"
    /\ running = {}

\* The registry is followed through its first command
FirstCommand == last = NoCommand

ServerDraw ==
    \E g \in Servers, u \in Members, arg \in DrawArgs :
        /\ FirstCommand
        /\ \E o \in Fateweaver_drawCard(guild_data, g, u, arg) :
              /\ guild_data' = o.gd
              /\ last' = o.last
              /\ UNCHANGED <<file, save_task, running>>

ServerPlay ==
    \E g \in Servers, u \in Members, args \in ArgLists :
        /\ FirstCommand
        /\ \E o \in Fateweaver_playCard(guild_data, g, u, args) :
              /\ guild_data' = o.gd
              /\ last' = o.last
              /\ UNCHANGED <<file, save_task, running>>

ServerDiscard ==
    \E g \in Servers, u \in Members, args \in ArgLists :
        /\ FirstCommand
        /\ \E o \in discardCard(guild_data, g, u, args) :
              /\ guild_data' = o.gd
              /\ last' = o.last
              /\ UNCHANGED <<file, save_task, running>>

ServerRedraw ==
    \E g \in Servers, u \in Members, args \in ArgLists :
        /\ FirstCommand
        /\ \E o \in redrawCard(guild_data, g, u, args) :
              /\ guild_data' = o.gd
              /\ last' = o.last
              /\ UNCHANGED <<file, save_task, running>>

ServerShuffle ==
    \E g \in Servers, u \in Members :
        /\ FirstCommand
        /\ \E o \in shuffleCards(guild_data, g, u) :
              /\ guild_data' = o.gd
              /\ last' = o.last
              /\ UNCHANGED <<file, save_task, running>>

NextServers ==
    \/ ServerDraw
    \/ ServerPlay
    \/ ServerDiscard
    \/ ServerRedraw
    \/ ServerShuffle

\* A card command of any member of any guild, in a registry that holds
\* other players
SpecServers == InitServers /\ [][NextServers]_vars

(***************************************************************************)
(* Properties                                                              *)
(***************************************************************************)
\* Every player of the registry
Players(gd) == UNION {{gd[g].player_list[u] : u \in DOMAIN gd[g].player_list} : g \in DOMAIN gd}

\* How often card x occurs in list s
CountIn(s, x) == Cardinality({i \in DOMAIN s : s[i] = x})

\* Two lists hold the same cards, each as often
SameCards(s, t) == \A x \in Cards : CountIn(s, x) = CountIn(t, x)

\* The player the command of this step addressed existed before the step
Existed ==
    /\ last'.guild \in DOMAIN guild_data
    /\ last'.user \in DOMAIN guild_data[last'.guild].player_list

\* That player before and after the step
Before == guild_data[last'.guild].player_list[last'.user]

After == guild_data'[last'.guild].player_list[last'.user]

\* The player the last command addressed
Addressed == guild_data[last.guild].player_list[last.user]

\* C1: in every reachable state every player's deck, hand and discard hold
\* every catalog card exactly once between them (so no card is in two piles
\* or twice in one).
C1_PilesPartitionCatalog ==
    \A p \in Players(guild_data) :
        \A x \in Cards : CountIn(p.deck, x) + CountIn(p.hand, x) + CountIn(p.discard, x) = 1

\* C1 witness: a redraw has just succeeded and the player holds cards in all
\* three piles.
C1_Witness ==
    /\ last.cmd = "redraw"
    /\ last.outcome = "ok"
    /\ Addressed.hand # <<>>
    /\ Addressed.discard # <<>>
    /\ Addressed.deck # <<>>

\* C2: a draw command on a player whose deck is not empty takes its cards
\* from the front of the deck, in order, and appends them to the end of the
\* hand: the rest of the deck keeps its order, the prior hand and the
\* discard are unchanged, at least one card is drawn, and a command that
\* ends well reports the last card it drew.
C2_DrawMovesFrontToHand ==
    [][(last'.cmd = "draw" /\ Existed /\ Before.deck # <<>>) =>
          LET k == Len(Before.deck) - Len(After.deck)
          IN  /\ k >= 1
              /\ After.deck = SubSeq(Before.deck, k + 1, Len(Before.deck))
              /\ After.hand = Before.hand \o SubSeq(Before.deck, 1, k)
              /\ After.discard = Before.discard
              /\ last'.outcome = "ok" => last'.ret = {Before.deck[k]}]_vars

\* C2 witness: a draw of exactly one card has just ended well, into a hand
\* that already held a card, from a deck that has cards left.
C2_Witness ==
    /\ last.cmd = "draw"
    /\ last.outcome = "ok"
    /\ Len(last.moved) = 1
    /\ last.ret = {Addressed.hand[Len(Addressed.hand)]}
    /\ Len(Addressed.hand) >= 2
    /\ Addressed.deck # <<>>

\* C3: a draw command by a player whose deck is empty ends with the
\* empty-deck result (no exception) and leaves hand, discard and deck
\* unchanged.
C3_EmptyDrawReturnsSentinel ==
    [][(last'.cmd = "draw" /\ Existed /\ Before.deck = <<>>) =>
          /\ last'.outcome = "EmptyDeck"
          /\ last'.ret = {}
          /\ After = Before]_vars

\* The first card of a pile, in list order, that a keyword matches; {} if none
FirstMatch(pile, key) ==
    LET hits == {i \in DOMAIN pile : Matches(pile[i], Lower(key))}
    IN  IF hits = {} THEN {} ELSE {pile[CHOOSE i \in hits : \A j \in hits : i <= j]}

\* C4: for every player and keyword, playCard moves the first matching hand
\* card, and only it, from the hand to the discard and returns it; with no
\* matching card (the empty hand included) it returns None, raises nothing
\* and changes nothing.
C4_PlayCardFirstMatch ==
    \A p \in Players(guild_data), key \in Keys :
        LET r == Diviner_playCard(p, key)
            hit == FirstMatch(p.hand, key)
        IN  IF hit # {}
            THEN LET c == CHOOSE x \in hit : TRUE
                 IN  /\ r.exc = "none"
                     /\ r.ret = {c}
                     /\ r.p.hand = ListRemove(p.hand, c)
                     /\ SameCards(r.p.discard, Append(p.discard, c))
                     /\ r.p.deck = p.deck
            ELSE /\ r.exc = "none"
                 /\ r.ret = {}
                 /\ r.p = p

\* The list in reverse
Reverse(s) == [i \in 1 .. Len(s) |-> s[Len(s) + 1 - i]]

\* C5: a play or discard command that moves cards puts each at the front of
\* the discard pile, so the pile afterwards is the moved cards, the latest
\* first, followed by the pile as it was.
C5_DiscardMostRecentFirst ==
    [][(last'.cmd \in {"play", "discard"} /\ Existed /\ last'.moved # <<>>) =>
          After.discard = Reverse(last'.moved) \o Before.discard]_vars

\* C6: a play, discard, redraw or restore command that ends by reporting
\* not-found leaves the addressed player's deck, hand and discard as they
\* were.
C6_NotFoundMovesNothing ==
    [][(/\ last'.cmd \in {"play", "discard", "redraw", "restore"}
        /\ last'.outcome = "NotFound"
        /\ Existed) => After = Before]_vars

\* C7: a shuffle command (or a reset of one named user, which makes the same
\* shuffleDeck call) leaves the hand and the discard empty and the deck
\* holding exactly the cards that were in deck, hand and discard; whatever
\* a second shuffleDeck then does, hand and discard stay empty and the deck
\* holds the same cards.
C7_ShuffleDeckRepools ==
    [][(last'.cmd \in {"shuffle", "reset"} /\ Existed) =>
          /\ After.hand = <<>>
          /\ After.discard = <<>>
          /\ SameCards(After.deck, Before.deck \o Before.hand \o Before.discard)
          /\ \A q \in ShuffleDeckOutcomes(After) :
                /\ q.hand = <<>>
                /\ q.discard = <<>>
                /\ SameCards(q.deck, After.deck)]_vars

\* C7 witness: a shuffle has just re-pooled at least two cards and left no
\* card outside the deck.
C7_Witness ==
    /\ last.cmd = "shuffle"
    /\ Len(last.moved) >= 2
    /\ Addressed.hand = <<>>
    /\ Addressed.discard = <<>>
    /\ Len(Addressed.deck) = NumCards

\* C8: for every player and every keyword that plays a card of the hand,
\* playCard and then redrawCard with the same keyword bring the card back to
\* the hand and leave hand, discard and deck with the card sets they had.
C8_PlayThenRedrawRestores ==
    \A p \in Players(guild_data), key \in Keys :
        LET played == Diviner_playCard(p, key)
        IN  played.moved # <<>> =>
              LET redrawn == Diviner_redrawCard(played.p, key)
              IN  /\ played.moved[1] \in Range(redrawn.p.hand)
                  /\ Range(redrawn.p.hand) = Range(p.hand)
                  /\ Range(redrawn.p.discard) = Range(p.discard)
                  /\ Range(redrawn.p.deck) = Range(p.deck)

\* A pile without card x
Without(s, x) == SelectSeq(s, LAMBDA y : y # x)

\* Player p with card x taken out of every pile
PlayerWithout(p, x) ==
    [hand |-> Without(p.hand, x), discard |-> Without(p.discard, x), deck |-> Without(p.deck, x)]

\* Card x is in one of the player's piles
Held(p, x) == InList(x, p.hand) \/ InList(x, p.discard) \/ InList(x, p.deck)

\* The restore command of this step found card x for a player that existed
Restored(x) == last'.cmd = "restore" /\ last'.ret = {x} /\ Existed

\* C9 as stated: a restore of a card held in one of the piles leaves it at
\* the front of the destination pile, whichever of the three that is, and in
\* no other place; every other card keeps its pile and its order.
C9_RestoreToFront ==
    [][\A x \in Cards : (Restored(x) /\ Held(Before, x)) =>
          /\ PlayerWithout(After, x) = PlayerWithout(Before, x)
          /\ After = [PlayerWithout(Before, x) EXCEPT ![last'.dest] = <<x>> \o @]]_vars

\* C9 amended: a restore of a card held in one of the piles takes it out of
\* that pile and puts it at the front of the deck or of the discard, or at
\* the end of the hand, as the destination says; every other card keeps its
\* pile and its order.
C9_RestoreToDestination ==
    [][\A x \in Cards : (Restored(x) /\ Held(Before, x)) =>
          After = [PlayerWithout(Before, x) EXCEPT
                     ![last'.dest] = IF last'.dest = "hand" THEN @ \o <<x>> ELSE <<x>> \o @]]_vars

\* C9 witness: a restore has just taken a card out of a pile and put it into
\* a hand that holds other cards, where it is last.
C9_Witness ==
    /\ last.cmd = "restore"
    /\ last.outcome = "ok"
    /\ last.dest = "hand"
    /\ last.moved # <<>>
    /\ Len(Addressed.hand) >= 2
    /\ {Addressed.hand[Len(Addressed.hand)]} = last.ret

Smaller(a, b) == IF a <= b THEN a ELSE b

\* C11: for every player and every count N a draw command can be given (or
\* none), the command takes min(clamp(N, 1, 5), deck size) cards from the
\* front of the deck to the end of the hand, never more than 5; with no
\* count or N below 1 it ends as with N = 1, with N above 5 as with N = 5.
C11_DrawClamp ==
    \A g \in DOMAIN guild_data : \A u \in DOMAIN guild_data[g].player_list :
        \A arg \in DrawArgs :
            LET N == IF arg = {} THEN 1 ELSE CHOOSE x \in arg : TRUE
                clamped == IF N < 1 THEN 1 ELSE Smaller(N, 5)
                before == PlayerOf(guild_data, g, u)
            IN  /\ Fateweaver_drawCard(guild_data, g, u, arg) =
                      Fateweaver_drawCard(guild_data, g, u, {clamped})
                /\ \A o \in Fateweaver_drawCard(guild_data, g, u, arg) :
                      LET after == PlayerOf(o.gd, g, u)
                          k == Len(before.deck) - Len(after.deck)
                      IN  /\ k = Smaller(clamped, Len(before.deck))
                          /\ k <= 5
                          /\ Len(o.last.moved) = k
                          /\ after.hand = before.hand \o SubSeq(before.deck, 1, k)
                          /\ after.deck = SubSeq(before.deck, k + 1, Len(before.deck))
                          /\ after.discard = before.discard

\* C11 witness: a draw command has just moved five cards to the hand and
\* left cards in the deck.
C11_Witness ==
    /\ last.cmd = "draw"
    /\ last.outcome = "ok"
    /\ Len(last.moved) = 5
    /\ Len(Addressed.hand) >= 5
    /\ Addressed.deck # <<>>

\* A data file every entry of which has the keys load reads
Loadable(f) ==
    /\ f # {}
    /\ \A data \in f : \A id \in DOMAIN data :
          /\ IsNumeral(id)
          /\ {"tabletop_channel", "player_list"} \subseteq DOMAIN data[id]
          /\ \A user_id \in DOMAIN data[id].player_list :
                LET player == data[id].player_list[user_id]
                IN  /\ IsNumeral(user_id)
                    /\ {"hand", "discard", "deck"} \subseteq DOMAIN player
                    /\ "card_nums" \in DOMAIN player.deck

C13_FailedLoadLeavesEmptyRegistry ==
    [][(last'.cmd = "init" /\ ~Loadable(file)) =>
          /\ guild_data' = EmptyRegistry
          /\ save_task' = "running"]_vars

\* C13 witness: startup has just ended with an empty registry and the save
\* task running, on a file that holds a sound guild and a broken one.
C13_Witness ==
    /\ last.cmd = "init"
    /\ guild_data = EmptyRegistry
    /\ save_task = "running"
    /\ ~Loadable(file)
    /\ \E data \in file : \E id \in DOMAIN data : LoadGuild(data[id]) # {} /\ IsNumeral(id)

\* C14: in every reachable state and for every guild and user, resolving
\* the player (getPlayer) of a user who has none stores one new player with
\* empty hand and discard and a deck holding every card once, and changes
\* no other player; resolving a user who has a player changes nothing; and
\* resolving again after either returns the stored player, piles unchanged.
C14_ResolvePlayerIdempotent ==
    \A g \in Guilds, u \in Users : \A gd1 \in getPlayer(guild_data, g, u) :
        LET known == IF g \in DOMAIN guild_data THEN DOMAIN guild_data[g].player_list ELSE {}
            p == PlayerOf(gd1, g, u)
        IN  /\ u \in known => gd1 = guild_data
            /\ u \notin known =>
                  /\ p.hand = <<>>
                  /\ p.discard = <<>>
                  /\ \A x \in Cards : CountIn(p.deck, x) = 1
                  /\ Len(p.deck) = NumCards
                  /\ \A v \in known : PlayerOf(gd1, g, v) = PlayerOf(guild_data, g, v)
            /\ getPlayer(gd1, g, u) = {gd1}

\* C14 witness: a guild is in the registry and one of the users has no
\* player in it yet.
C14_Witness ==
    \E g \in DOMAIN guild_data : \E u \in Users : u \notin DOMAIN guild_data[g].player_list

\* C15: a play command in a guild that has no tabletop channel (or is not
\* in the registry yet, and so gets none) ends with the tabletop-not-set
\* error; in a guild that was in the registry it resolves no player and
\* leaves the registry, and so every player's deck, hand and discard, as
\* it was.
C15_PlayWithoutTabletop ==
    [][(/\ last'.cmd = "play"
        /\ last'.guild \in DOMAIN guild_data => guild_data[last'.guild].tabletop_channel = {}) =>
          /\ last'.outcome = "NoTabletop"
          /\ last'.moved = <<>>
          /\ last'.guild \in DOMAIN guild_data => guild_data' = guild_data]_vars

\* C15 witness: a play command has just been refused for the missing
\* tabletop channel, issued by a player who holds cards in the hand.
C15_Witness ==
    /\ last.cmd = "play"
    /\ last.outcome = "NoTabletop"
    /\ last.user \in DOMAIN guild_data[last.guild].player_list
    /\ Addressed.hand # <<>>

\* C16: while a draw command is suspended between two of its draws, no
\* step other than its own changes the deck, hand or discard of its player.
C16_NoInterleavedMutation ==
    [][\A t \in running :
          t \in running' =>
              PlayerOf(guild_data', t.guild, t.user) = PlayerOf(guild_data, t.guild, t.user)]_vars

\* C17: in every snapshot the save task writes, at whatever await of the
\* commands it runs, every player's saved hand, discard and deck lists hold
\* every catalog card exactly once between them.
C17_SnapshotUntorn ==
    \A data \in file : \A id \in DOMAIN data : \A user_id \in DOMAIN data[id].player_list :
        LET player == data[id].player_list[user_id]
        IN  \A x \in Cards :
                CountIn(player.hand, x) + CountIn(player.discard, x)
                    + CountIn(player.deck.card_nums, x) = 1

\* C17 witness: the save task has just written a snapshot while a draw
\* command was suspended between two draws, of a player with cards in the
\* hand and in the discard.
C17_Witness ==
    /\ last.cmd = "save"
    /\ running # {}
    /\ \E data \in file : \E id \in DOMAIN data : \E user_id \in DOMAIN data[id].player_list :
          LET player == data[id].player_list[user_id]
          IN  player.hand # <<>> /\ player.discard # <<>>

\* The player is as shuffleDeck leaves player p: hand and discard empty, the
\* deck holding what p's deck, hand and discard held
Repooled(q, p) ==
    /\ q.hand = <<>>
    /\ q.discard = <<>>
    /\ SameCards(q.deck, p.deck \o p.hand \o p.discard)
    /\ Len(q.deck) = Len(p.deck) + Len(p.hand) + Len(p.discard)

\* C18: a reset that names a user re-pools that user's player (a new one if
\* the user had none) and leaves every other player of the guild as it was;
\* a reset that names no user re-pools every player of the guild and adds
\* none, so that afterwards every player of the guild has an empty hand and
\* an empty discard.
C18_ResetFrame ==
    [][(last'.cmd = "reset" /\ last'.guild \in DOMAIN guild_data) =>
          LET before == guild_data[last'.guild].player_list
              after == guild_data'[last'.guild].player_list
          IN  IF last'.user # 0
              THEN /\ DOMAIN after = DOMAIN before \cup {last'.user}
                   /\ \A v \in DOMAIN before \ {last'.user} : after[v] = before[v]
                   /\ last'.user \in DOMAIN before => Repooled(after[last'.user], before[last'.user])
                   /\ after[last'.user].hand = <<>> /\ after[last'.user].discard = <<>>
              ELSE /\ DOMAIN after = DOMAIN before
                   /\ \A v \in DOMAIN before : Repooled(after[v], before[v])]_vars

\* C18 witness: a reset naming one member has just emptied that member's
\* hand and discard, and the other member still holds cards in the hand and
\* in the discard.
C18_Witness ==
    /\ last.cmd = "reset"
    /\ last.user \in Members
    /\ Addressed.hand = <<>>
    /\ \E v \in DOMAIN guild_data[last.guild].player_list :
          /\ v # last.user
          /\ guild_data[last.guild].player_list[v].hand # <<>>
          /\ guild_data[last.guild].player_list[v].discard # <<>>

\* The list is in ascending order
Ascending(s) == \A i, j \in DOMAIN s : i < j => s[i] <= s[j]

RECURSIVE FirstHit(_, _)
FirstHit(pile, args) ==
    IF args = <<>> THEN {}
    ELSE IF FirstMatch(pile, Head(args)) # {} THEN FirstMatch(pile, Head(args))
    ELSE FirstHit(pile, Tail(args))

\* The command ended having moved exactly the card hit, if any, and
\* reporting success exactly if there was one
MovedOnly(o, hit) ==
    /\ o.last.moved = IF hit = {} THEN <<>> ELSE <<CHOOSE x \in hit : TRUE>>
    /\ o.last.outcome = "ok" <=> hit # {}

\* C20: in every reachable state, for every player of a guild with a
\* tabletop channel and every list of keywords, a play or discard command
\* moves the hand's match of the first keyword that matches, and nothing
\* else, and a redraw command the discard's; each reports success exactly
\* when it has moved a card.
C20_OneCardPerCommand ==
    \A g \in DOMAIN guild_data : \A u \in DOMAIN guild_data[g].player_list :
        guild_data[g].tabletop_channel # {} =>
            \A args \in ArgLists :
                LET p == PlayerOf(guild_data, g, u)
                IN  /\ \A o \in Fateweaver_playCard(guild_data, g, u, args) :
                          MovedOnly(o, FirstHit(p.hand, args))
                    /\ \A o \in discardCard(guild_data, g, u, args) :
                          MovedOnly(o, FirstHit(p.hand, args))
                    /\ \A o \in redrawCard(guild_data, g, u, args) :
                          MovedOnly(o, FirstHit(p.discard, args))

\* The card commands
CardCommands == {"draw", "play", "discard", "redraw", "shuffle"}

\* A player that holds cards in the hand and in the discard
Holding(p) == p.hand # <<>> /\ p.discard # <<>>

\* C21: a draw, play, discard, redraw or shuffle command issued by user u in
\* guild g leaves every player the registry held before it, other than the
\* one of (g, u), stored where it was and with the same hand, discard and
\* deck: the players of the other users of g, and the players of every
\* other guild, the one of the same user id included.
C21_PartitionedPlayers ==
    [][last'.cmd \in CardCommands =>
          \A g \in DOMAIN guild_data : \A u \in DOMAIN guild_data[g].player_list :
              (g # last'.guild \/ u # last'.user) =>
                  /\ g \in DOMAIN guild_data'
                  /\ u \in DOMAIN guild_data'[g].player_list
                  /\ guild_data'[g].player_list[u] = guild_data[g].player_list[u]]_vars

\* C21 witness: a card command has just moved cards of its issuer's player,
\* while another user of the same guild, and the same user in another
\* guild, each hold a player with cards in the hand and in the discard.
C21_Witness ==
    /\ last.cmd \in CardCommands
    /\ last.outcome = "ok"
    /\ last.moved # <<>>
    /\ \E v \in DOMAIN guild_data[last.guild].player_list :
          /\ v # last.user
          /\ Holding(guild_data[last.guild].player_list[v])
    /\ \E h \in DOMAIN guild_data :
          /\ h # last.guild
          /\ last.user \in DOMAIN guild_data[h].player_list
          /\ Holding(guild_data[h].player_list[last.user])

====
